---- MODULE Spec2Model ----
(***************************************************************************)
(* Model of mergify_engine/engine/__init__.py (the per-pull-request event  *)
(* router and the Summary continuity tracker) and of                       *)
(* mergify_engine/sub_utils.py (the subscription cache).                   *)
(***************************************************************************)
EXTENDS Integers, Sequences, FiniteSets, TLC

VARIABLES
    checks,      \* check-runs per revision, as the check-run API lists them
    pointer,     \* persisted "last summary head sha" of the pull request
    DEFAULT_PULL_REQUEST_RULES,  \* the module-level baseline rule list
    pull,        \* run() argument: the pull request snapshot
    sub,         \* run() argument: the subscription
    sources,     \* run() argument: the event batch
    ctxt_sources,            \* ctxt.sources
    issue_comment_sources,   \* the local list of run()
    answers,     \* what the collaborators answered to this run so far
    mergify_config,          \* the local of run(): its pull_request_rules
    handed,      \* the rule list actions_runner.handle received
    pc,          \* position of run()
    log,         \* effects of the current run (or call), in order
    prev,        \* checks and pointer at entry of the current run (or call)
    cache,       \* the redis cache: key -> encrypted entry and remaining ttl
    callers,     \* the get_subscription coroutines: position and locals
    saved,       \* per key, what was last saved and how long ago
    from_db,     \* per account, what the subscription service answered so far
    runs,        \* concurrent runs of one pull request: position and locals
    summaries_seen   \* per revision, the outputs its engine Summary ever had

runVars == <<checks, pointer, DEFAULT_PULL_REQUEST_RULES, pull, sub, sources,
             ctxt_sources, issue_comment_sources, answers, mergify_config,
             handed, pc, log, prev>>

subVars == <<cache, callers, saved, from_db>>

concVars == <<runs, summaries_seen>>

vars == <<runVars, subVars, concVars>>

----------------------------------------------------------------------------
(* Bounds and value domains *)

\* longest event batch handed to the continuity tracker
MaxEvents == 2

Revs == {"r1", "r2", "r3"}

NoSha == "none"

SUMMARY_NAME == "Summary"

INTEGRATION_ID == "mergify"

Check(app, name, conclusion, title, summary) ==
    [app |-> app, name |-> name, conclusion |-> conclusion,
     output |-> [title |-> title, summary |-> summary]]

\* What a revision's check-run list may look like before a run: nothing, a
\* Summary of the engine, a failed Summary of the engine listed after another
\* check-run of the engine and a Summary of another application, or only
\* foreign and non-Summary check-runs.
CheckLists ==
    { <<>>,
      << Check(INTEGRATION_ID, SUMMARY_NAME, "success", "T1", "B1") >>,
      << Check(INTEGRATION_ID, "Rule: merge", "success", "T4", "B4"),
         Check("other-app", SUMMARY_NAME, "success", "T3", "B3"),
         Check(INTEGRATION_ID, SUMMARY_NAME, "failure", "T2", "B2") >>,
      << Check("other-app", SUMMARY_NAME, "success", "T3", "B3"),
         Check(INTEGRATION_ID, "Rule: merge", "success", "T4", "B4") >> }

\* pull_request events of the walk: synchronize with both revisions, synchronize
\* without `before`, and one that is not a synchronize
SyncEvents ==
    { [event_type |-> "pull_request",
       data |-> [action |-> "synchronize", after |-> a, before |-> b]]
        : a \in Revs, b \in Revs }

SyncEventsNoBefore ==
    { [event_type |-> "pull_request",
       data |-> [action |-> "synchronize", after |-> a]] : a \in Revs }

PullRequestEvent(action) ==
    [event_type |-> "pull_request", data |-> [action |-> action]]

SeqsUpTo(S, n) == UNION { [1..k -> S] : k \in 0..n }

\* the rules of data/default_pull_request_rules.yml, loaded at import
BaselineRules == <<"default-1", "default-2">>

----------------------------------------------------------------------------
(* Collaborators: check-run API, Context, pointer store *)

\* check_api.get_checks_for_ref(ctxt, sha, check_name=...)
get_checks_for_ref(chk, sha, check_name) ==
    SelectSeq(chk[sha], LAMBDA c : c.name = check_name)

\* ctxt.pull_engine_check_runs: the engine's check-runs on the head
pull_engine_check_runs(chk, head_sha) ==
    SelectSeq(chk[head_sha], LAMBDA c : c.app = INTEGRATION_ID)

\* check_api.set_check_run: update the engine's check-run of that name on the
\* head, or create it
set_check_run(chk, head_sha, name, conclusion, output) ==
    LET new == [app |-> INTEGRATION_ID, name |-> name,
                conclusion |-> conclusion, output |-> output]
        mine(c) == c.app = INTEGRATION_ID /\ c.name = name
        l == chk[head_sha]
    IN  IF \E i \in 1..Len(l) : mine(l[i])
        THEN [chk EXCEPT ![head_sha] =
                 [i \in 1..Len(l) |-> IF mine(l[i]) THEN new ELSE l[i]]]
        ELSE [chk EXCEPT ![head_sha] = Append(l, new)]

\* log entries
LogSetCheck(name, conclusion, output) ==
    <<"set_check_run", name, conclusion, output.title, output.summary>>

LogGetChecks(sha) == <<"get_checks_for_ref", sha>>

LogPointer(op) == <<op>>

LogOps(l) == [i \in 1..Len(l) |-> l[i][1]]

CountOp(l, op) == Cardinality({i \in 1..Len(l) : l[i][1] = op})

----------------------------------------------------------------------------
(* Summary continuity tracker *)

NoSummary == [name |-> "none"]

\* get_summary_from_sha
get_summary_from_sha_NoAppFilter(chk, sha) ==
    LET cs == get_checks_for_ref(chk, sha, SUMMARY_NAME)
    IN  IF cs # <<>> THEN cs[1] ELSE NoSummary

get_summary_from_sha(chk, sha) ==
    LET cs == SelectSeq(get_checks_for_ref(chk, sha, SUMMARY_NAME),
                        LAMBDA c : c.app = INTEGRATION_ID)
    IN  IF cs # <<>> THEN cs[1] ELSE NoSummary

\* the dict built at the top of get_summary_from_synchronize_event: a later
\* event of the batch replaces an earlier one with the same `after`
IsSynchronize(s) ==
    /\ s.event_type = "pull_request"
    /\ s.data.action = "synchronize"
    /\ "after" \in DOMAIN s.data

synchronize_events_KeyedByBefore(srcs) ==
    LET idx == {i \in 1..Len(srcs) :
                   IsSynchronize(srcs[i]) /\ "before" \in DOMAIN srcs[i].data}
        keys == {srcs[i].data.before : i \in idx}
        last(b) == CHOOSE i \in idx :
                      /\ srcs[i].data.before = b
                      /\ \A j \in idx : srcs[j].data.before = b => j <= i
    IN  [b \in keys |-> srcs[last(b)].data]

synchronize_events(srcs) ==
    LET idx == {i \in 1..Len(srcs) : IsSynchronize(srcs[i])}
        keys == {srcs[i].data.after : i \in idx}
        last(a) == CHOOSE i \in idx :
                      /\ srcs[i].data.after = a
                      /\ \A j \in idx : srcs[j].data.after = a => j <= i
    IN  [a \in keys |-> srcs[last(a)].data]

Restrict(d, keys) == [k \in keys |-> d[k]]

\* the else branch of the loop: pop(after_sha, None) found no event
MissingEvent_KeyError(acc) ==
    [acc EXCEPT !.iterations = @ + 1, !.raised = TRUE]

MissingEvent(acc) ==
    [acc EXCEPT !.iterations = @ + 1, !.log = Append(@, <<"warning">>)]

\* the while loop of get_summary_from_synchronize_event; acc carries the
\* lookups made, the number of iterations, the events popped and the values
\* after_sha took
RECURSIVE WalkLoop(_, _, _, _)
WalkLoop(chk, d, after_sha, acc) ==
    IF DOMAIN d = {}
    THEN [acc EXCEPT !.summary = NoSummary]
    ELSE IF after_sha \in DOMAIN d
         THEN LET sync_event == d[after_sha]
                  rest == Restrict(d, DOMAIN d \ {after_sha})
                  it == [acc EXCEPT !.iterations = @ + 1,
                                    !.popped = Append(@, after_sha)]
              IN  IF "before" \notin DOMAIN sync_event
                  THEN [it EXCEPT !.raised = TRUE]
                  ELSE LET previous_summary ==
                               get_summary_from_sha(chk, sync_event.before)
                           looked == [it EXCEPT !.log =
                                        Append(@, LogGetChecks(sync_event.before))]
                       IN  IF previous_summary # NoSummary
                           THEN [looked EXCEPT !.summary = previous_summary]
                           ELSE WalkLoop(chk, rest, sync_event.before,
                                    [looked EXCEPT !.reached =
                                        Append(@, sync_event.before)])
         ELSE MissingEvent(acc)

WalkStart ==
    [summary |-> NoSummary, raised |-> FALSE, log |-> <<>>,
     iterations |-> 0, popped |-> <<>>, reached |-> <<>>]

get_summary_from_synchronize_event(chk, head_sha, srcs) ==
    LET d == synchronize_events(srcs)
    IN  IF DOMAIN d # {}
        THEN WalkLoop(chk, d, head_sha,
                      [WalkStart EXCEPT !.reached = <<head_sha>>])
        ELSE WalkStart

\* the for loop at the top of ensure_summary_on_head_sha
SummaryOnHead_FirstCheckOnly(engine_checks) ==
    engine_checks # <<>> /\ engine_checks[1].name = SUMMARY_NAME

SummaryOnHead(engine_checks) ==
    \E i \in 1..Len(engine_checks) : engine_checks[i].name = SUMMARY_NAME

\* ensure_summary_on_head_sha: the new checks and pointer, the effects in
\* order, and whether an exception left the function
ensure_summary_on_head_sha_WalkFallback(chk, ptr, head_sha, srcs) ==
    LET unchanged == [checks |-> chk, pointer |-> ptr, log |-> <<>>,
                      raised |-> FALSE]
    IN  IF SummaryOnHead(pull_engine_check_runs(chk, head_sha))
        THEN unchanged
        ELSE
        LET sha == ptr
            got == <<LogPointer("get_last_summary_head_sha")>>
            found ==
                IF sha # NoSha /\ get_summary_from_sha(chk, sha) # NoSummary
                THEN [WalkStart EXCEPT
                        !.summary = get_summary_from_sha(chk, sha),
                        !.log = <<LogGetChecks(sha)>>]
                ELSE get_summary_from_synchronize_event(chk, head_sha, srcs)
            previous_summary == found.summary
            output == [title |-> previous_summary.output.title,
                       summary |-> previous_summary.output.summary]
        IN  IF found.raised
            THEN [unchanged EXCEPT !.log = got \o found.log, !.raised = TRUE]
            ELSE IF previous_summary # NoSummary
            THEN [checks |-> set_check_run(chk, head_sha, SUMMARY_NAME,
                                           "success", output),
                  pointer |-> head_sha,
                  log |-> got \o found.log
                          \o << LogSetCheck(SUMMARY_NAME, "success", output),
                                LogPointer("save_last_summary_head_sha") >>,
                  raised |-> FALSE]
            ELSE [unchanged EXCEPT !.log = got \o found.log]

ensure_summary_on_head_sha(chk, ptr, head_sha, srcs) ==
    LET unchanged == [checks |-> chk, pointer |-> ptr, log |-> <<>>,
                      raised |-> FALSE]
    IN  IF SummaryOnHead(pull_engine_check_runs(chk, head_sha))
        THEN unchanged
        ELSE
        LET sha == ptr
            got == <<LogPointer("get_last_summary_head_sha")>>
            found ==
                IF sha # NoSha
                THEN [WalkStart EXCEPT
                        !.summary = get_summary_from_sha(chk, sha),
                        !.log = <<LogGetChecks(sha)>>]
                ELSE get_summary_from_synchronize_event(chk, head_sha, srcs)
            previous_summary == found.summary
            output == [title |-> previous_summary.output.title,
                       summary |-> previous_summary.output.summary]
        IN  IF found.raised
            THEN [unchanged EXCEPT !.log = got \o found.log, !.raised = TRUE]
            ELSE IF previous_summary # NoSummary
            THEN [checks |-> set_check_run(chk, head_sha, SUMMARY_NAME,
                                           "success", output),
                  pointer |-> head_sha,
                  log |-> got \o found.log
                          \o << LogSetCheck(SUMMARY_NAME, "success", output),
                                LogPointer("save_last_summary_head_sha") >>,
                  raised |-> FALSE]
            ELSE [unchanged EXCEPT !.log = got \o found.log]

----------------------------------------------------------------------------
(* Subscription cache: sub_utils.py *)

\* the ttl save_subscription_to_cache gives to setex
SUBSCRIPTION_TTL == 3600

\* how far the clock moves in one step
ClockStep == SUBSCRIPTION_TTL \div 2

Owners == {"owner-1", "owner-2"}

Callers == {"caller-1", "caller-2"}

NoTokens == [login \in {} |-> ""]

\* what the subscription service answers for an account: a subscription (as
\* sent: each token is an object), not found, or another failure
DbAnswers ==
    { [kind |-> "ok",
       json |-> [subscription_active |-> TRUE, subscription_reason |-> "",
                 tokens |-> [login \in {"alice"} |->
                                [access_token |-> "token-of-" \o login]]]],
      [kind |-> "ok",
       json |-> [subscription_active |-> FALSE,
                 subscription_reason |-> "Subscription expired",
                 tokens |-> NoTokens]],
      [kind |-> "HTTPNotFound", message |-> "Organization or user has no Mergify subscription"],
      [kind |-> "HTTPServerError", message |-> "500"] }

None == [none |-> TRUE]

\* json.dumps(sub).encode() and json.loads(...decode()) of a subscription
json_dumps(s) ==
    <<"json", {<<login, s.tokens[login]>> : login \in DOMAIN s.tokens},
      s.subscription_active, s.subscription_reason>>

json_loads(text) ==
    [tokens |-> [login \in {pair[1] : pair \in text[2]} |->
                    (CHOOSE pair \in text[2] : pair[1] = login)[2]],
     subscription_active |-> text[3],
     subscription_reason |-> text[4]]

\* crypto.encrypt and crypto.decrypt
encrypt(plain) == <<"encrypted", plain>>

decrypt(encrypted) == encrypted[2]

\* "subscription-cache-owner-%s" % owner_id
CacheKey_Shared(owner_id) == <<"subscription-cache-owner-", "%s">>

CacheKey(owner_id) == <<"subscription-cache-owner-", owner_id>>

CacheKeys == {CacheKey(o) : o \in Owners}

NoEntry == [present |-> FALSE, value |-> <<>>, ttl |-> 0]

\* redis get and setex
redis_get(c, key) == IF c[key].present THEN c[key].value ELSE None

redis_setex(c, key, ttl, value) ==
    [c EXCEPT ![key] = [present |-> TRUE, value |-> value, ttl |-> ttl]]

\* the passing of `step` seconds: entries whose ttl has run out are gone
redis_expire(c, step) ==
    [key \in DOMAIN c |->
        IF c[key].present /\ c[key].ttl > step
        THEN [c[key] EXCEPT !.ttl = @ - step]
        ELSE NoEntry]

\* _retrieve_subscription_from_db, given what the service answers: the
\* subscription, or the exception that leaves it
retrieve_subscription_from_db_Reraise(answer) ==
    IF answer.kind = "ok"
    THEN [raised |-> FALSE,
          sub |-> [answer.json EXCEPT !.tokens =
                     [login \in DOMAIN @ |-> @[login].access_token]]]
    ELSE [raised |-> TRUE, sub |-> None]

retrieve_subscription_from_db_CatchAll(answer) ==
    IF answer.kind = "ok"
    THEN [raised |-> FALSE,
          sub |-> [answer.json EXCEPT !.tokens =
                     [login \in DOMAIN @ |-> @[login].access_token]]]
    ELSE [raised |-> FALSE,
          sub |-> [tokens |-> NoTokens,
                   subscription_active |-> FALSE,
                   subscription_reason |-> answer.message]]

retrieve_subscription_from_db(answer) ==
    CASE answer.kind = "HTTPNotFound" ->
            [raised |-> FALSE,
             sub |-> [tokens |-> NoTokens,
                      subscription_active |-> FALSE,
                      subscription_reason |-> answer.message]]
      [] answer.kind = "ok" ->
            [raised |-> FALSE,
             sub |-> [answer.json EXCEPT !.tokens =
                        [login \in DOMAIN @ |-> @[login].access_token]]]
      [] OTHER -> [raised |-> TRUE, sub |-> None]

\* _retrieve_subscription_from_cache, given what redis answered
retrieve_subscription_from_cache(encrypted_sub) ==
    IF encrypted_sub # None
    THEN json_loads(decrypt(encrypted_sub))
    ELSE None

\* save_subscription_to_cache
save_subscription_to_cache_ShortTtl(c, owner_id, s) ==
    redis_setex(c, CacheKey(owner_id), 360, encrypt(json_dumps(s)))

save_subscription_to_cache(c, owner_id, s) ==
    redis_setex(c, CacheKey(owner_id), SUBSCRIPTION_TTL, encrypt(json_dumps(s)))

NeverSaved == [present |-> FALSE, sub |-> None, age |-> 0, kind |-> "none"]

Idle == [pc |-> "idle", owner_id |-> "owner-1", sub |-> None,
         fetches |-> 0, writes |-> 0, written |-> NoEntry,
         answer |-> [kind |-> "none"], at_read |-> NeverSaved]

NoSubscriptionCalls ==
    /\ cache = [key \in CacheKeys |-> NoEntry]
    /\ callers = [p \in Callers |-> Idle]
    /\ saved = [key \in CacheKeys |-> NeverSaved]
    /\ from_db = [owner_id \in Owners |-> {}]

NoConcurrentRuns ==
    /\ runs = <<>>
    /\ summaries_seen = <<>>

\* a coroutine enters get_subscription(owner_id)
CallGetSubscription(p) ==
    /\ callers[p].pc \in {"idle", "returned", "raised"}
    /\ \E owner_id \in Owners :
          callers' = [callers EXCEPT ![p] =
                         [Idle EXCEPT !.pc = "cache_get", !.owner_id = owner_id]]
    /\ UNCHANGED <<cache, saved, from_db>>

\* lines 65-66: the cache answers; on a hit the coroutine returns
CacheGet(p) ==
    /\ callers[p].pc = "cache_get"
    /\ LET owner_id == callers[p].owner_id
           s == retrieve_subscription_from_cache(
                    redis_get(cache, CacheKey(owner_id)))
       IN  callers' = [callers EXCEPT ![p] =
              [@ EXCEPT !.sub = s,
                        !.at_read = saved[CacheKey(owner_id)],
                        !.pc = IF s = None THEN "db_get" ELSE "returned"]]
    /\ UNCHANGED <<cache, saved, from_db>>

\* line 67: the subscription service answers
DbGet(p) ==
    /\ callers[p].pc = "db_get"
    /\ \E answer \in DbAnswers :
          LET r == retrieve_subscription_from_db(answer)
          IN  /\ callers' = [callers EXCEPT ![p] =
                    [@ EXCEPT !.sub = r.sub,
                              !.fetches = @ + 1,
                              !.answer = answer,
                              !.pc = IF r.raised THEN "raised" ELSE "cache_setex"]]
              /\ from_db' = IF r.raised THEN from_db
                            ELSE [from_db EXCEPT ![callers[p].owner_id] =
                                     @ \cup {r.sub}]
    /\ UNCHANGED <<cache, saved>>

\* lines 68-69: the write to the cache, then the return
CacheSetex(p) ==
    /\ callers[p].pc = "cache_setex"
    /\ LET owner_id == callers[p].owner_id
           after == save_subscription_to_cache(cache, owner_id, callers[p].sub)
       IN  /\ cache' = after
           /\ saved' = [saved EXCEPT ![CacheKey(owner_id)] =
                          [present |-> TRUE, sub |-> callers[p].sub,
                           age |-> 0, kind |-> callers[p].answer.kind]]
           /\ callers' = [callers EXCEPT ![p] =
                 [@ EXCEPT !.writes = @ + 1,
                           !.written = after[CacheKey(owner_id)],
                           !.pc = "returned"]]
    /\ UNCHANGED from_db

\* time passes
Tick ==
    /\ cache' = redis_expire(cache, ClockStep)
    /\ saved' = [key \in CacheKeys |->
                    IF saved[key].present /\ saved[key].age < SUBSCRIPTION_TTL
                    THEN [saved[key] EXCEPT !.age = @ + ClockStep]
                    ELSE saved[key]]
    /\ UNCHANGED <<callers, from_db>>


----------------------------------------------------------------------------
(* The continuity tracker alone: calls of ensure_summary_on_head_sha on the  *)
(* Context of a run that passed every gate.                                  *)

WalkBatches == SeqsUpTo(SyncEvents \cup SyncEventsNoBefore
                          \cup {PullRequestEvent("closed")}, MaxEvents)

NoConfig == [kind |-> "unasked", rules |-> <<>>, error |-> ""]

NoAnswers == [permissions |-> "unasked",
              files |-> [asked |-> FALSE, list |-> <<>>],
              ref_config |-> "unasked",
              config |-> NoConfig]

NotHanded == [called |-> 0, rules |-> <<>>]

InitWalk ==
    /\ checks \in [Revs -> CheckLists]
    /\ pointer \in Revs \cup {NoSha}
    /\ DEFAULT_PULL_REQUEST_RULES = BaselineRules
    /\ pull \in [head_sha : Revs, base_ref : {"main"},
                 default_branch : {"main"}, private : {FALSE}]
    /\ sub = [private_repository |-> TRUE, reason |-> "ok"]
    /\ sources \in WalkBatches
    /\ ctxt_sources = sources
    /\ issue_comment_sources = <<>>
    /\ answers = NoAnswers
    /\ mergify_config = <<>>
    /\ handed = NotHanded
    /\ pc = "continuity"
    /\ log = <<>>
    /\ prev = [checks |-> checks, pointer |-> pointer, called |-> FALSE]
    /\ NoSubscriptionCalls
    /\ NoConcurrentRuns

\* one call of ensure_summary_on_head_sha(ctxt)
CallEnsureSummary ==
    /\ pc = "continuity"
    /\ LET r == ensure_summary_on_head_sha(checks, pointer, pull.head_sha,
                                           ctxt_sources)
       IN  /\ checks' = r.checks
           /\ pointer' = r.pointer
           /\ log' = r.log
           /\ pc' = IF r.raised THEN "raised" ELSE "continuity"
    /\ prev' = [checks |-> checks, pointer |-> pointer, called |-> TRUE]
    /\ UNCHANGED <<DEFAULT_PULL_REQUEST_RULES, pull, sub, sources, ctxt_sources,
                   issue_comment_sources, answers, mergify_config, handed>>

NextWalk == CallEnsureSummary /\ UNCHANGED <<subVars, concVars>>

SpecWalk == InitWalk /\ [][NextWalk]_vars

----------------------------------------------------------------------------
(* Properties of the continuity tracker (checked under SpecWalk) *)

\* the engine's Summary check-runs at a revision
EngineSummaries(chk, r) ==
    {i \in 1..Len(chk[r]) :
        chk[r][i].app = INTEGRATION_ID /\ chk[r][i].name = SUMMARY_NAME}

HasEngineSummary(chk, r) == EngineSummaries(chk, r) # {}

TheEngineSummary(chk, r) == chk[r][CHOOSE i \in EngineSummaries(chk, r) : TRUE]

\* the batch's synchronize events
SynchronizeIdx(srcs) ==
    {i \in 1..Len(srcs) :
        srcs[i].event_type = "pull_request"
        /\ srcs[i].data.action = "synchronize"}

Bijections(n, S) ==
    {f \in [1..n -> S] : \A i, j \in 1..n : i # j => f[i] # f[j]}

\* f orders the batch's synchronize events as a chain
\* head = after_N -> before_N = after_N-1 -> ... -> before_1
IsChain(srcs, head_sha, f, n) ==
    /\ \A i \in 1..n : {"after", "before"} \subseteq DOMAIN srcs[f[i]].data
    /\ srcs[f[n]].data.after = head_sha
    /\ \A i \in 2..n : srcs[f[i]].data.before = srcs[f[i-1]].data.after

\* the ends of the chains the batch's synchronize events form from the head,
\* given that a Summary exists only at that end
ChainEnds(chk, srcs, head_sha) ==
    LET S == SynchronizeIdx(srcs)
        n == Cardinality(S)
    IN  IF n = 0 THEN {}
        ELSE {srcs[f[1]].data.before : f \in
                {g \in Bijections(n, S) :
                    /\ IsChain(srcs, head_sha, g, n)
                    /\ \A r \in Revs : HasEngineSummary(chk, r)
                                        <=> r = srcs[g[1]].data.before}}

DistinctAfters(srcs) ==
    \A i, j \in SynchronizeIdx(srcs) :
        (i # j /\ "after" \in DOMAIN srcs[i].data /\ "after" \in DOMAIN srcs[j].data)
            => srcs[i].data.after # srcs[j].data.after

\* the call published exactly one Summary on the head, a success with the
\* title and body of the Summary at revision `from`, and saved the head
RepublishedFrom(from) ==
    LET old == TheEngineSummary(prev.checks, from)
        h == pull.head_sha
    IN  /\ pc = "continuity"
        /\ CountOp(log, "set_check_run") = 1
        /\ \E i \in 1..Len(log) :
              log[i] = <<"set_check_run", SUMMARY_NAME, "success",
                         old.output.title, old.output.summary>>
        /\ Cardinality(EngineSummaries(checks, h)) = 1
        /\ TheEngineSummary(checks, h).conclusion = "success"
        /\ TheEngineSummary(checks, h).output = old.output
        /\ \A r \in Revs \ {h} : checks[r] = prev.checks[r]
        /\ pointer = h

ChainCase ==
    /\ prev.called
    /\ prev.pointer = NoSha
    /\ ~HasEngineSummary(prev.checks, pull.head_sha)
    /\ ChainEnds(prev.checks, ctxt_sources, pull.head_sha) # {}

\* C1 as stated: whenever the batch's synchronize events form an unbroken chain
\* from the head to a revision that alone carries a Summary (no Summary on the
\* head, no pointer persisted), ensure_summary_on_head_sha republishes that
\* Summary on the head as a success and the pointer becomes the head.
C1_ChainRepublished ==
    ChainCase =>
        \A e \in ChainEnds(prev.checks, ctxt_sources, pull.head_sha) :
            RepublishedFrom(e)

\* C1 amended: the same, for chains in which no two synchronize events of the
\* batch have the same `after` revision.
C1_DistinctChainRepublished ==
    (ChainCase /\ DistinctAfters(ctxt_sources)) =>
        \A e \in ChainEnds(prev.checks, ctxt_sources, pull.head_sha) :
            RepublishedFrom(e)

\* a chain of two hops was walked and its Summary republished
C1_Witness ==
    /\ ChainCase
    /\ DistinctAfters(ctxt_sources)
    /\ Cardinality(SynchronizeIdx(ctxt_sources)) >= 2
    /\ CountOp(log, "get_checks_for_ref") >= 2
    /\ pointer = pull.head_sha
    /\ HasEngineSummary(checks, pull.head_sha)

\* C3: when the head already carries a Summary of the engine, a call of
\* ensure_summary_on_head_sha writes no check-run and neither reads, saves nor
\* deletes the pointer: checks and pointer are as before the call, however often
\* it is called.
C3_NoOpWhenSummaryOnHead ==
    (prev.called /\ HasEngineSummary(prev.checks, pull.head_sha)) =>
        /\ log = <<>>
        /\ checks = prev.checks
        /\ pointer = prev.pointer
        /\ pc = "continuity"

\* a call on a head with a Summary, with a pointer and synchronize events at hand
C3_Witness ==
    /\ prev.called
    /\ HasEngineSummary(prev.checks, pull.head_sha)
    /\ prev.pointer \notin {NoSha, pull.head_sha}
    /\ HasEngineSummary(prev.checks, prev.pointer)
    /\ SynchronizeIdx(ctxt_sources) # {}

\* the revisions after_sha took in the walk of the last call
WalkOfCall ==
    get_summary_from_synchronize_event(prev.checks, pull.head_sha, ctxt_sources)

Afters(srcs) ==
    {srcs[i].data.after :
        i \in {j \in SynchronizeIdx(srcs) : "after" \in DOMAIN srcs[j].data}}

GapCase ==
    /\ prev.called
    /\ prev.pointer = NoSha
    /\ ~HasEngineSummary(prev.checks, pull.head_sha)
    /\ Afters(ctxt_sources) # {}
    /\ \E i \in 1..Len(WalkOfCall.reached) :
          WalkOfCall.reached[i] \notin Afters(ctxt_sources)

\* C4: with no pointer persisted, when the walk from the head reaches a revision
\* that is the `after` of no synchronize event of the batch before it found a
\* Summary, nothing is published on the head, the pointer stays as it was and
\* no error is raised.
C4_GapStopsQuietly ==
    GapCase =>
        /\ pc = "continuity"
        /\ CountOp(log, "set_check_run") = 0
        /\ CountOp(log, "save_last_summary_head_sha") = 0
        /\ checks = prev.checks
        /\ pointer = prev.pointer

\* the walk made a hop, then met the gap, with a Summary elsewhere
C4_Witness ==
    /\ GapCase
    /\ Len(WalkOfCall.popped) >= 1
    /\ CountOp(log, "warning") = 1
    /\ \E r \in Revs : HasEngineSummary(prev.checks, r)

----------------------------------------------------------------------------
(* Event router: run(client, pull, sub, sources) *)

\* longest event batch handed to run()
MaxBatch == 2

IssueComment(body, user) ==
    [event_type |-> "issue_comment",
     data |-> [action |-> "created", comment |-> [body |-> body, user |-> user]]]

RouterEvents ==
    { IssueComment("@Mergifyio refresh", "alice"),
      IssueComment("@Mergifyio rebase", "bob"),
      PullRequestEvent("opened"),
      PullRequestEvent("closed"),
      [event_type |-> "pull_request",
       data |-> [action |-> "synchronize", after |-> "r1", before |-> "r2"]],
      [event_type |-> "pull_request",
       data |-> [action |-> "synchronize", after |-> "r1"]],
      [event_type |-> "status", data |-> [state |-> "success"]] }

RouterBatches == SeqsUpTo(RouterEvents, MaxBatch)

\* rules.MERGIFY_CONFIG_FILENAMES
MERGIFY_CONFIG_FILENAMES ==
    {".mergify.yml", ".mergify/config.yml", ".github/mergify.yml"}

\* a changed file; contents_url is kept as its parts around "?ref="
File(filename, ref) ==
    [filename |-> filename,
     contents_url |-> <<"https://api.github.com/contents/" \o filename, ref>>]

FileLists ==
    { <<>>,
      << File("README.md", "r1") >>,
      << File(".github/mergify.yml", "r1"), File("README.md", "r1") >>,
      << File(".mergify.yml", "r2"), File(".github/mergify.yml", "r3") >> }

RepoRuleLists ==
    { <<>>, <<"rule-a">>, <<"rule-a", "rule-b">>, <<"rule-b", "rule-a">> }

\* what rules.get_mergify_config answers: the rules, InvalidRules or NoRules
ConfigAnswers ==
    { [kind |-> "NoRules", rules |-> <<>>, error |-> ""],
      [kind |-> "InvalidRules", rules |-> <<>>, error |-> "E1"] }
    \cup { [kind |-> "ok", rules |-> r, error |-> ""] : r \in RepoRuleLists }

NoRef == "None"

\* lines 170-176 of run(): the partition of the batch
Partition_KeepAll(srcs) ==
    [issue_comment_sources |->
        SelectSeq(srcs, LAMBDA s : s.event_type = "issue_comment"),
     ctxt_sources |-> srcs]

Partition(srcs) ==
    [issue_comment_sources |->
        SelectSeq(srcs, LAMBDA s : s.event_type = "issue_comment"),
     ctxt_sources |->
        SelectSeq(srcs, LAMBDA s : s.event_type # "issue_comment")]

\* lines 178-188 of run(): the pending commands, then each comment in turn
CommandEffects_PendingLast(comments) ==
    [i \in 1..Len(comments) |->
        <<"commands_runner.handle", comments[i].data.comment.body,
          comments[i].data.comment.user>>]
    \o << <<"run_pending_commands_tasks">> >>

CommandEffects(comments) ==
    << <<"run_pending_commands_tasks">> >>
    \o [i \in 1..Len(comments) |->
           <<"commands_runner.handle", comments[i].data.comment.body,
             comments[i].data.comment.user>>]

\* the ref check_configuration_changes validates: that of the last changed
\* file with a configuration filename
ConfigRef_OnlyDotMergify(fs) ==
    LET idx == {i \in 1..Len(fs) : fs[i].filename = ".mergify.yml"}
        last == CHOOSE i \in idx : \A j \in idx : j <= i
    IN  IF idx = {} THEN NoRef ELSE fs[last].contents_url[2]

ConfigRef(fs) ==
    LET idx == {i \in 1..Len(fs) : fs[i].filename \in MERGIFY_CONFIG_FILENAMES}
        last == CHOOSE i \in idx : \A j \in idx : j <= i
    IN  IF idx = {} THEN NoRef ELSE fs[last].contents_url[2]

\* check_configuration_changes: `result` is what it returns, or the exception
\* that leaves it; `outcome` is what get_mergify_config does at the ref
check_configuration_changes_FallsThrough(chk, pl, fs, outcome) ==
    LET untouched == [checks |-> chk, log |-> <<>>, result |-> "False"]
    IN  IF pl.default_branch = pl.base_ref
        THEN LET ref == ConfigRef(fs)
                 asked == <<"get_mergify_config", ref>>
                 invalid == [title |-> "The new Mergify configuration is invalid",
                             summary |-> "E1"]
                 valid == [title |-> "The new Mergify configuration is valid",
                           summary |-> "This pull request must be merged manually because it modifies Mergify configuration"]
             IN  IF ref # NoRef
                 THEN CASE outcome = "InvalidRules" ->
                             [checks |-> set_check_run(chk, pl.head_sha, SUMMARY_NAME,
                                                       "failure", invalid),
                              log |-> <<asked, LogSetCheck(SUMMARY_NAME, "failure", invalid)>>,
                              result |-> "True"]
                        [] outcome = "NoRules" ->
                             [checks |-> chk, log |-> <<asked>>, result |-> "NoRules"]
                        [] OTHER ->
                             [checks |-> set_check_run(chk, pl.head_sha, SUMMARY_NAME,
                                                       "success", valid),
                              log |-> <<asked, LogSetCheck(SUMMARY_NAME, "success", valid)>>,
                              result |-> "False"]
                 ELSE untouched
        ELSE untouched

check_configuration_changes(chk, pl, fs, outcome) ==
    LET untouched == [checks |-> chk, log |-> <<>>, result |-> "False"]
    IN  IF pl.default_branch = pl.base_ref
        THEN LET ref == ConfigRef(fs)
                 asked == <<"get_mergify_config", ref>>
                 invalid == [title |-> "The new Mergify configuration is invalid",
                             summary |-> "E1"]
                 valid == [title |-> "The new Mergify configuration is valid",
                           summary |-> "This pull request must be merged manually because it modifies Mergify configuration"]
             IN  IF ref # NoRef
                 THEN CASE outcome = "InvalidRules" ->
                             [checks |-> set_check_run(chk, pl.head_sha, SUMMARY_NAME,
                                                       "failure", invalid),
                              log |-> <<asked, LogSetCheck(SUMMARY_NAME, "failure", invalid)>>,
                              result |-> "True"]
                        [] outcome = "NoRules" ->
                             [checks |-> chk, log |-> <<asked>>, result |-> "NoRules"]
                        [] OTHER ->
                             [checks |-> set_check_run(chk, pl.head_sha, SUMMARY_NAME,
                                                       "success", valid),
                              log |-> <<asked, LogSetCheck(SUMMARY_NAME, "success", valid)>>,
                              result |-> "True"]
                 ELSE untouched
        ELSE untouched

\* line 243 of run(): rules.extend(DEFAULT_PULL_REQUEST_RULES.rules)
AddMandatoryRules_ExtendDefaults(rules, defaults) ==
    [rules |-> defaults \o rules, defaults |-> defaults \o rules]

AddMandatoryRules(rules, defaults) ==
    [rules |-> rules \o defaults, defaults |-> defaults]

\* the test of lines 222-228
AnyOpenedOrSynchronize_OpenedOnly(srcs) ==
    \E i \in 1..Len(srcs) :
        /\ srcs[i].event_type = "pull_request"
        /\ srcs[i].data.action = "opened"

AnyOpenedOrSynchronize(srcs) ==
    \E i \in 1..Len(srcs) :
        /\ srcs[i].event_type = "pull_request"
        /\ srcs[i].data.action \in {"opened", "synchronize"}

\* the test of lines 265-268
AnyClosed_OnlyLast(srcs) ==
    /\ srcs # <<>>
    /\ srcs[Len(srcs)].event_type = "pull_request"
    /\ srcs[Len(srcs)].data.action = "closed"

AnyClosed(srcs) ==
    \E i \in 1..Len(srcs) :
        /\ srcs[i].event_type = "pull_request"
        /\ srcs[i].data.action = "closed"

\* the test of lines 245-247
EntitlementDenied_Inverted(pl, s) == pl.private /\ s.private_repository

EntitlementDenied(pl, s) == pl.private /\ ~s.private_repository

Subscriptions ==
    { [private_repository |-> TRUE, reason |-> ""],
      [private_repository |-> FALSE, reason |-> "Subscription expired"] }

Init ==
    /\ checks \in [Revs -> {<<>>, <<Check(INTEGRATION_ID, SUMMARY_NAME,
                                          "success", "T1", "B1")>>}]
    /\ pointer \in Revs \cup {NoSha}
    /\ DEFAULT_PULL_REQUEST_RULES = BaselineRules
    /\ pull \in [head_sha : {"r1"}, base_ref : {"main", "stable"},
                 default_branch : {"main"}, private : BOOLEAN]
    /\ sub \in Subscriptions
    /\ sources \in RouterBatches
    /\ ctxt_sources = <<>>
    /\ issue_comment_sources = <<>>
    /\ answers = NoAnswers
    /\ mergify_config = <<>>
    /\ handed = NotHanded
    /\ pc = "start"
    /\ log = <<>>
    /\ prev = [checks |-> checks, pointer |-> pointer, called |-> FALSE]
    /\ NoSubscriptionCalls
    /\ NoConcurrentRuns

\* lines 165-191
RunCommands ==
    /\ pc = "start"
    /\ ctxt_sources' = Partition(sources).ctxt_sources
    /\ issue_comment_sources' = Partition(sources).issue_comment_sources
    /\ log' = log \o CommandEffects(issue_comment_sources')
    /\ pc' = IF ctxt_sources' = <<>> THEN "returned" ELSE "permissions"
    /\ UNCHANGED <<checks, pointer, DEFAULT_PULL_REQUEST_RULES, pull, sub,
                   sources, answers, mergify_config, handed, prev>>

\* lines 193-204
PermissionsGate ==
    /\ pc = "permissions"
    /\ \E permissions_need_to_be_updated \in BOOLEAN :
          LET output == [title |-> "Required GitHub permissions are missing.",
                         summary |-> "You can accept them at https://dashboard.mergify.io/"]
          IN  /\ answers' = [answers EXCEPT !.permissions =
                    IF permissions_need_to_be_updated THEN "needs_update" ELSE "ok"]
              /\ IF permissions_need_to_be_updated
                 THEN /\ checks' = set_check_run(checks, pull.head_sha, "Summary",
                                                 "failure", output)
                      /\ log' = Append(log, LogSetCheck("Summary", "failure", output))
                      /\ pc' = "returned"
                 ELSE /\ UNCHANGED <<checks, log>>
                      /\ pc' = "configuration_changes"
    /\ UNCHANGED <<pointer, DEFAULT_PULL_REQUEST_RULES, pull, sub, sources,
                   ctxt_sources, issue_comment_sources, mergify_config, handed,
                   prev>>

\* lines 206-209
ConfigurationChangesGate ==
    /\ pc = "configuration_changes"
    /\ \E fs \in FileLists, outcome \in {"ok", "InvalidRules", "NoRules"} :
          LET fetched == pull.default_branch = pull.base_ref
              validated == fetched /\ ConfigRef(fs) # NoRef
              r == check_configuration_changes(checks, pull, fs, outcome)
          IN  /\ ~fetched => fs = <<>>
              /\ ~validated => outcome = "ok"
              /\ answers' = [answers EXCEPT
                                !.files = [asked |-> fetched, list |-> fs],
                                !.ref_config = IF validated THEN outcome
                                               ELSE "unasked"]
              /\ checks' = r.checks
              /\ log' = log \o r.log
              /\ pc' = CASE r.result = "True" -> "returned"
                         [] r.result = "NoRules" -> "raised"
                         [] OTHER -> "get_configuration"
    /\ UNCHANGED <<pointer, DEFAULT_PULL_REQUEST_RULES, pull, sub, sources,
                   ctxt_sources, issue_comment_sources, mergify_config, handed,
                   prev>>

\* lines 211-243
GetConfiguration ==
    /\ pc = "get_configuration"
    /\ \E answer \in ConfigAnswers :
          LET output == [title |-> "The Mergify configuration is invalid",
                         summary |-> answer.error]
              merged == AddMandatoryRules(answer.rules, DEFAULT_PULL_REQUEST_RULES)
              asked == <<"get_mergify_config", "default">>
          IN  /\ answers' = [answers EXCEPT !.config = answer]
              /\ CASE answer.kind = "NoRules" ->
                        /\ log' = Append(log, asked)
                        /\ pc' = "returned"
                        /\ UNCHANGED <<checks, mergify_config,
                                       DEFAULT_PULL_REQUEST_RULES>>
                   [] answer.kind = "InvalidRules" ->
                        /\ IF AnyOpenedOrSynchronize(ctxt_sources)
                           THEN /\ checks' = set_check_run(checks, pull.head_sha,
                                               SUMMARY_NAME, "failure", output)
                                /\ log' = log \o <<asked,
                                     LogSetCheck(SUMMARY_NAME, "failure", output)>>
                           ELSE /\ log' = Append(log, asked)
                                /\ UNCHANGED checks
                        /\ pc' = "returned"
                        /\ UNCHANGED <<mergify_config, DEFAULT_PULL_REQUEST_RULES>>
                   [] OTHER ->
                        /\ mergify_config' = merged.rules
                        /\ DEFAULT_PULL_REQUEST_RULES' = merged.defaults
                        /\ log' = Append(log, asked)
                        /\ pc' = "entitlement"
                        /\ UNCHANGED checks
    /\ UNCHANGED <<pointer, pull, sub, sources, ctxt_sources,
                   issue_comment_sources, handed, prev>>

\* lines 245-258
EntitlementGate ==
    /\ pc = "entitlement"
    /\ LET output == [title |-> "Mergify is disabled", summary |-> sub.reason]
       IN  IF EntitlementDenied(pull, sub)
           THEN /\ checks' = set_check_run(checks, pull.head_sha, SUMMARY_NAME,
                                           "failure", output)
                /\ log' = Append(log, LogSetCheck(SUMMARY_NAME, "failure", output))
                /\ pc' = "returned"
           ELSE /\ UNCHANGED <<checks, log>>
                /\ pc' = "continuity_of_run"
    /\ UNCHANGED <<pointer, DEFAULT_PULL_REQUEST_RULES, pull, sub, sources,
                   ctxt_sources, issue_comment_sources, answers, mergify_config,
                   handed, prev>>

\* line 260
Continuity ==
    /\ pc = "continuity_of_run"
    /\ LET r == ensure_summary_on_head_sha(checks, pointer, pull.head_sha,
                                           ctxt_sources)
       IN  /\ checks' = r.checks
           /\ pointer' = r.pointer
           /\ log' = log \o r.log
           /\ pc' = IF r.raised THEN "raised" ELSE "closed"
    /\ UNCHANGED <<DEFAULT_PULL_REQUEST_RULES, pull, sub, sources, ctxt_sources,
                   issue_comment_sources, answers, mergify_config, handed, prev>>

\* lines 265-269
ClosedCleanup ==
    /\ pc = "closed"
    /\ IF AnyClosed(ctxt_sources)
       THEN /\ pointer' = NoSha
            /\ log' = Append(log, LogPointer("delete_last_summary_head_sha"))
       ELSE UNCHANGED <<pointer, log>>
    /\ pc' = "handle"
    /\ UNCHANGED <<checks, DEFAULT_PULL_REQUEST_RULES, pull, sub, sources,
                   ctxt_sources, issue_comment_sources, answers, mergify_config,
                   handed, prev>>

\* lines 271-272
Handle ==
    /\ pc = "handle"
    /\ handed' = [called |-> handed.called + 1, rules |-> mergify_config]
    /\ log' = Append(log, <<"actions_runner.handle">>)
    /\ pc' = "returned"
    /\ UNCHANGED <<checks, pointer, DEFAULT_PULL_REQUEST_RULES, pull, sub,
                   sources, ctxt_sources, issue_comment_sources, answers,
                   mergify_config, prev>>

Next ==
    \/ RunCommands /\ UNCHANGED <<subVars, concVars>>
    \/ PermissionsGate /\ UNCHANGED <<subVars, concVars>>
    \/ ConfigurationChangesGate /\ UNCHANGED <<subVars, concVars>>
    \/ GetConfiguration /\ UNCHANGED <<subVars, concVars>>
    \/ EntitlementGate /\ UNCHANGED <<subVars, concVars>>
    \/ Continuity /\ UNCHANGED <<subVars, concVars>>
    \/ ClosedCleanup /\ UNCHANGED <<subVars, concVars>>
    \/ Handle /\ UNCHANGED <<subVars, concVars>>

Spec == Init /\ [][Next]_vars

----------------------------------------------------------------------------
(* A sequence of runs in one process, for one pull request *)

InitRuns ==
    /\ checks = [r \in Revs |->
                    IF r = "r2"
                    THEN <<Check(INTEGRATION_ID, SUMMARY_NAME, "success", "T1", "B1")>>
                    ELSE <<>>]
    /\ pointer \in {NoSha, "r2"}
    /\ DEFAULT_PULL_REQUEST_RULES = BaselineRules
    /\ pull \in [head_sha : {"r1"}, base_ref : {"main", "stable"},
                 default_branch : {"main"}, private : BOOLEAN]
    /\ sub \in Subscriptions
    /\ sources \in SeqsUpTo(RouterEvents, 1)
    /\ ctxt_sources = <<>>
    /\ issue_comment_sources = <<>>
    /\ answers = NoAnswers
    /\ mergify_config = <<>>
    /\ handed = NotHanded
    /\ pc = "start"
    /\ log = <<>>
    /\ prev = [checks |-> checks, pointer |-> pointer, called |-> FALSE]
    /\ NoSubscriptionCalls
    /\ NoConcurrentRuns

\* the worker calls run() again, with a fresh Context, for the next batch
NewRun ==
    /\ pc \in {"returned", "raised"}
    /\ pull' \in [head_sha : {"r1"}, base_ref : {"main", "stable"},
                  default_branch : {"main"}, private : BOOLEAN]
    /\ sub' \in Subscriptions
    /\ sources' \in SeqsUpTo(RouterEvents, 1)
    /\ ctxt_sources' = <<>>
    /\ issue_comment_sources' = <<>>
    /\ answers' = NoAnswers
    /\ mergify_config' = <<>>
    /\ handed' = NotHanded
    /\ pc' = "start"
    /\ log' = <<>>
    /\ prev' = [checks |-> checks, pointer |-> pointer, called |-> FALSE]
    /\ UNCHANGED <<checks, pointer, DEFAULT_PULL_REQUEST_RULES>>

NextRuns == Next \/ (NewRun /\ UNCHANGED <<subVars, concVars>>)

SpecRuns == InitRuns /\ [][NextRuns]_vars

----------------------------------------------------------------------------
(* Properties of run() (checked under Spec) *)

Terminal == pc \in {"returned", "raised"}

\* the batch as run() received it
BatchHasClosed ==
    \E i \in 1..Len(sources) :
        sources[i].event_type = "pull_request" /\ sources[i].data.action = "closed"

BatchHasNonComment ==
    \E i \in 1..Len(sources) : sources[i].event_type # "issue_comment"

PointerDeleted ==
    /\ CountOp(log, "delete_last_summary_head_sha") = 1
    /\ pointer = NoSha

PointerUntouched ==
    /\ pointer = prev.pointer
    /\ CountOp(log, "get_last_summary_head_sha") = 0
    /\ CountOp(log, "save_last_summary_head_sha") = 0
    /\ CountOp(log, "delete_last_summary_head_sha") = 0

EvaluatorInvoked == CountOp(log, "actions_runner.handle") >= 1

\* the set_check_run calls of the run, in order
Published == SelectSeq(log, LAMBDA e : e[1] = "set_check_run")

\* C2 as stated: every run whose batch has a closed pull_request event has
\* deleted the pointer when it ends.
C2_ClosedAlwaysDeletesPointer ==
    (Terminal /\ BatchHasClosed) => PointerDeleted

\* C2 amended: every run whose batch has a closed pull_request event and that no
\* gate stops before the cleanup has deleted the pointer when it hands over to
\* the evaluator, also when the head already carried a Summary.
C2_ClosedDeletesPointerPastGates ==
    (BatchHasClosed /\ (pc = "handle" \/ EvaluatorInvoked)) => PointerDeleted

\* a run with a closed event, a Summary already on the head and a pointer
\* persisted, that reached the evaluator
C2_Witness ==
    /\ BatchHasClosed
    /\ EvaluatorInvoked
    /\ HasEngineSummary(prev.checks, pull.head_sha)
    /\ prev.pointer # NoSha
    /\ CountOp(log, "get_last_summary_head_sha") = 0
    /\ pointer = NoSha

\* the pull request changes a configuration file and targets the default branch
ConfigurationChanged ==
    /\ answers.files.asked
    /\ pull.base_ref = pull.default_branch
    /\ \E i \in 1..Len(answers.files.list) :
          answers.files.list[i].filename \in MERGIFY_CONFIG_FILENAMES

ValidatedAtEditedRevision ==
    \E i \in 1..Len(answers.files.list) :
        /\ answers.files.list[i].filename \in MERGIFY_CONFIG_FILENAMES
        /\ \E k \in 1..Len(log) :
              log[k] = <<"get_mergify_config", answers.files.list[i].contents_url[2]>>

DisabledSummary ==
    <<"set_check_run", SUMMARY_NAME, "failure", "Mergify is disabled", sub.reason>>

\* C6 as stated: every run on a private repository whose subscription lacks the
\* private-repository entitlement publishes the failure Summary
\* "Mergify is disabled" with the subscription's reason as body.
C6_PrivateAlwaysDisabled ==
    (Terminal /\ pull.private /\ ~sub.private_repository) =>
        \E k \in 1..Len(log) : log[k] = DisabledSummary

\* C6 amended: the same for every such run that reaches the entitlement gate,
\* that is whose batch has a non-comment event, whose credentials are valid,
\* that no configuration change stops and whose configuration is valid.
C6_PrivateDisabledAtGate ==
    (Terminal /\ pull.private /\ ~sub.private_repository
        /\ answers.config.kind = "ok") =>
        /\ Published = <<DisabledSummary>>
        /\ TheEngineSummary(checks, pull.head_sha).conclusion = "failure"
        /\ TheEngineSummary(checks, pull.head_sha).output =
              [title |-> "Mergify is disabled", summary |-> sub.reason]
        /\ pc = "returned"

\* the entitlement gate stopped a run on a head that carried a Summary
C6_Witness ==
    /\ Terminal
    /\ pull.private
    /\ ~sub.private_repository
    /\ answers.config.kind = "ok"
    /\ HasEngineSummary(prev.checks, pull.head_sha)
    /\ Published = <<DisabledSummary>>

\* the step of run() an effect belongs to, numbered as the steps are ordered:
\* 1 command dispatch, 2 credential gate, 3 configuration-change gate,
\* 4 configuration resolution, 5 entitlement gate, 6 continuity, 7 pointer
\* deletion, 8 evaluator
StepOf(e) ==
    CASE e[1] \in {"run_pending_commands_tasks", "commands_runner.handle"} -> 1
      [] e[1] = "set_check_run"
            /\ e[4] = "Required GitHub permissions are missing." -> 2
      [] e[1] = "get_mergify_config" /\ e[2] # "default" -> 3
      [] e[1] = "set_check_run"
            /\ e[4] \in {"The new Mergify configuration is valid",
                         "The new Mergify configuration is invalid"} -> 3
      [] e[1] = "get_mergify_config" /\ e[2] = "default" -> 4
      [] e[1] = "set_check_run"
            /\ e[4] = "The Mergify configuration is invalid" -> 4
      [] e[1] = "set_check_run" /\ e[4] = "Mergify is disabled" -> 5
      [] e[1] = "delete_last_summary_head_sha" -> 7
      [] e[1] = "actions_runner.handle" -> 8
      [] OTHER -> 6

\* the step whose gate stopped the run, 9 when none did (so far)
FailedGate ==
    CASE ~BatchHasNonComment -> 1
      [] answers.permissions = "needs_update" -> 2
      [] ConfigurationChanged /\ answers.ref_config \in {"ok", "InvalidRules"} -> 3
      [] answers.config.kind \in {"NoRules", "InvalidRules"} -> 4
      [] answers.config.kind = "ok" /\ pull.private /\ ~sub.private_repository -> 5
      [] OTHER -> 9

----------------------------------------------------------------------------
(* Properties of the rule list (checked under SpecRuns) *)

\* C10: the rule list the evaluator receives is the repository's rules in their
\* order followed by the baseline rules in theirs, so as long as both together;
\* and no run changes the baseline list.
C10_BaselineAppended ==
    /\ DEFAULT_PULL_REQUEST_RULES = BaselineRules
    /\ handed.called >= 1 =>
          LET repo == answers.config.rules
          IN  /\ answers.config.kind = "ok"
              /\ Len(handed.rules) = Len(repo) + Len(BaselineRules)
              /\ \A i \in 1..Len(repo) : handed.rules[i] = repo[i]
              /\ \A i \in 1..Len(BaselineRules) :
                    handed.rules[Len(repo) + i] = BaselineRules[i]

\* a later run of the sequence handed over two repository rules
C10_Witness ==
    /\ handed.called = 1
    /\ answers.config.rules = <<"rule-b", "rule-a">>
    /\ HasEngineSummary(prev.checks, pull.head_sha)
    /\ prev.pointer = pull.head_sha

----------------------------------------------------------------------------
(* Calls of get_subscription, interleaved at their awaits *)

InitSub ==
    /\ NoSubscriptionCalls
    /\ NoConcurrentRuns
    /\ checks = [r \in Revs |-> <<>>]
    /\ pointer = NoSha
    /\ DEFAULT_PULL_REQUEST_RULES = BaselineRules
    /\ pull = [head_sha |-> "r1", base_ref |-> "main",
               default_branch |-> "main", private |-> FALSE]
    /\ sub = [private_repository |-> TRUE, reason |-> ""]
    /\ sources = <<>>
    /\ ctxt_sources = <<>>
    /\ issue_comment_sources = <<>>
    /\ answers = NoAnswers
    /\ mergify_config = <<>>
    /\ handed = NotHanded
    /\ pc = "idle"
    /\ log = <<>>
    /\ prev = [checks |-> checks, pointer |-> pointer, called |-> FALSE]

NextSub ==
    \/ \E p \in Callers : CallGetSubscription(p) /\ UNCHANGED <<runVars, concVars>>
    \/ \E p \in Callers : CacheGet(p) /\ UNCHANGED <<runVars, concVars>>
    \/ \E p \in Callers : DbGet(p) /\ UNCHANGED <<runVars, concVars>>
    \/ \E p \in Callers : CacheSetex(p) /\ UNCHANGED <<runVars, concVars>>
    \/ Tick /\ UNCHANGED <<runVars, concVars>>

SpecSub == InitSub /\ [][NextSub]_vars

----------------------------------------------------------------------------
(* Claims about the subscription cache *)

FreshAtRead(c) == c.at_read.present /\ c.at_read.age < SUBSCRIPTION_TTL

ExpiredAtRead(c) == c.at_read.present /\ c.at_read.age >= SUBSCRIPTION_TTL

WrittenWithTtl(c) ==
    /\ c.writes = 1
    /\ c.written.present
    /\ c.written.ttl = 3600
    /\ json_loads(decrypt(c.written.value)) = c.sub

\* C8: a get_subscription that reads the cache less than 3600 seconds after
\* the account's entry was saved returns the subscription that was saved,
\* without asking the subscription service and without writing; one that reads
\* it 3600 seconds or more after the save and returns has asked the service
\* exactly once and written what it returns with a ttl of 3600 seconds.
C8_CachedForTtl ==
    \A p \in Callers :
        LET c == callers[p]
        IN  /\ FreshAtRead(c) =>
                  /\ c.pc = "returned"
                  /\ c.sub = c.at_read.sub
                  /\ c.fetches = 0
                  /\ c.writes = 0
            /\ (ExpiredAtRead(c) /\ c.pc = "returned") =>
                  /\ c.fetches = 1
                  /\ c.answer.kind \in {"ok", "HTTPNotFound"}
                  /\ WrittenWithTtl(c)
            /\ c.fetches <= 1

C8_Witness ==
    \E p, q \in Callers :
        /\ callers[p].pc = "returned"
        /\ FreshAtRead(callers[p])
        /\ callers[p].at_read.age > 0
        /\ callers[p].sub.subscription_active
        /\ callers[q].pc = "returned"
        /\ ExpiredAtRead(callers[q])
        /\ callers[q].writes = 1

NegativeResult(message) ==
    [tokens |-> NoTokens, subscription_active |-> FALSE,
     subscription_reason |-> message]

\* C9: a get_subscription that misses the cache and is answered "not found"
\* does not raise: it returns a subscription without tokens, inactive, whose
\* reason is the not-found message, after writing it to the cache with a ttl
\* of 3600 seconds; a get_subscription that reads the cache less than 3600
\* seconds after that save returns the same negative subscription without
\* asking the subscription service.
C9_NotFoundIsCached ==
    \A p \in Callers :
        LET c == callers[p]
        IN  /\ c.answer.kind = "HTTPNotFound" =>
                  /\ c.pc \in {"cache_setex", "returned"}
                  /\ c.sub = NegativeResult(c.answer.message)
                  /\ c.pc = "returned" => WrittenWithTtl(c)
            /\ (FreshAtRead(c) /\ c.at_read.kind = "HTTPNotFound") =>
                  /\ c.pc = "returned"
                  /\ c.fetches = 0
                  /\ c.sub.tokens = NoTokens
                  /\ ~c.sub.subscription_active
                  /\ c.sub = c.at_read.sub

C9_Witness ==
    \E p, q \in Callers :
        /\ callers[p].pc = "returned"
        /\ callers[p].answer.kind = "HTTPNotFound"
        /\ ~callers[p].at_read.present
        /\ callers[q].pc = "returned"
        /\ callers[q].owner_id = callers[p].owner_id
        /\ FreshAtRead(callers[q])
        /\ callers[q].at_read.kind = "HTTPNotFound"
        /\ callers[q].fetches = 0

----------------------------------------------------------------------------
(* Further properties of run() (checked under Spec) *)

BatchHasOpenedOrSynchronize ==
    \E i \in 1..Len(sources) :
        /\ sources[i].event_type = "pull_request"
        /\ sources[i].data.action \in {"opened", "synchronize"}

InvalidSummary ==
    <<"set_check_run", SUMMARY_NAME, "failure",
      "The Mergify configuration is invalid", answers.config.error>>

\* C11: when the resolution of the configuration answers NoRules the run
\* returns with no Summary published, the pointer untouched and the evaluator
\* not invoked; when it answers InvalidRules the run publishes the failure
\* Summary with the validation error exactly when the batch has a pull_request
\* event with action opened or synchronize; in both cases it returns without
\* raising and without invoking the evaluator.
C11_ResolutionOutcomes ==
    /\ answers.config.kind = "NoRules" =>
          /\ pc = "returned"
          /\ Published = <<>>
          /\ checks = prev.checks
          /\ PointerUntouched
          /\ ~EvaluatorInvoked
          /\ handed.called = 0
    /\ answers.config.kind = "InvalidRules" =>
          /\ pc = "returned"
          /\ BatchHasOpenedOrSynchronize =>
                /\ Published = <<InvalidSummary>>
                /\ TheEngineSummary(checks, pull.head_sha).conclusion = "failure"
                /\ TheEngineSummary(checks, pull.head_sha).output.summary =
                      answers.config.error
          /\ ~BatchHasOpenedOrSynchronize =>
                /\ Published = <<>>
                /\ checks = prev.checks
          /\ PointerUntouched
          /\ ~EvaluatorInvoked
          /\ handed.called = 0

\* an invalid configuration met by a batch with a synchronize and a closed
\* event, with a pointer persisted
C11_Witness ==
    /\ answers.config.kind = "InvalidRules"
    /\ BatchHasClosed
    /\ \E i \in 1..Len(sources) :
          /\ sources[i].event_type = "pull_request"
          /\ sources[i].data.action = "synchronize"
    /\ Published = <<InvalidSummary>>
    /\ prev.pointer # NoSha

----------------------------------------------------------------------------
(* Further properties of the subscription cache (checked under SpecSub) *)

\* the subscription a cache entry holds
Cached(key) == json_loads(decrypt(cache[key].value))

AllFinished == \A p \in Callers : callers[p].pc \in {"returned", "raised"}

\* C12: however get_subscription calls interleave at their awaits, a caller
\* fetches at most once for itself, every caller that returns returns a
\* subscription the subscription service answered for that account, and the
\* cache entry of an account holds what the last writer for it wrote, which is
\* one of the subscriptions fetched for that account.
C12_ConcurrentMisses ==
    /\ \A p \in Callers :
          LET c == callers[p]
          IN  /\ c.pc = "returned" => c.sub \in from_db[c.owner_id]
              /\ c.fetches <= 1
              /\ c.writes <= c.fetches
    /\ \A owner_id \in Owners :
          LET key == <<"subscription-cache-owner-", owner_id>>
          IN  (key \in DOMAIN cache /\ cache[key].present) =>
                  /\ saved[key].present
                  /\ Cached(key) = saved[key].sub
                  /\ Cached(key) \in from_db[owner_id]

\* two callers missed for the same account, each fetched for itself, they
\* returned different subscriptions and the cache holds the one written last
C12_Witness ==
    \E p, q \in Callers :
        /\ AllFinished
        /\ p # q
        /\ callers[p].owner_id = callers[q].owner_id
        /\ callers[p].pc = "returned" /\ callers[q].pc = "returned"
        /\ ~callers[p].at_read.present /\ ~callers[q].at_read.present
        /\ callers[p].fetches = 1 /\ callers[q].fetches = 1
        /\ callers[p].sub # callers[q].sub
        /\ cache[CacheKey(callers[p].owner_id)].present
        /\ Cached(CacheKey(callers[p].owner_id)) = callers[q].sub
        /\ saved[CacheKey(callers[p].owner_id)].age = 0

FetchFailed(c) == c.answer.kind \notin {"none", "ok", "HTTPNotFound"}

\* C14: when the cache misses and the subscription service fails otherwise than
\* by not-found, the failure leaves get_subscription: the call returns no
\* subscription and writes nothing to the cache; and no call raises otherwise.
C14_FetchFailurePropagates ==
    \A p \in Callers :
        LET c == callers[p]
        IN  /\ FetchFailed(c) =>
                  /\ c.pc = "raised"
                  /\ c.sub = None
                  /\ c.fetches = 1
                  /\ c.writes = 0
                  /\ c.written = NoEntry
                  /\ c.sub \notin from_db[c.owner_id]
            /\ c.pc = "raised" => FetchFailed(c)

\* the fetch of a caller failed on an expired entry, and the cache still has no
\* entry for that account
C14_Witness ==
    \E p \in Callers :
        /\ callers[p].pc = "raised"
        /\ callers[p].answer.kind = "HTTPServerError"
        /\ ExpiredAtRead(callers[p])
        /\ ~cache[CacheKey(callers[p].owner_id)].present
        /\ AllFinished

----------------------------------------------------------------------------
(* Two runs of the same pull request in two workers, past the gates,         *)
(* interleaved at their calls of the check-run API and of the pointer store  *)

RunIds == {"run-1", "run-2"}

\* the Summary each revision may carry before the runs, listed after a Summary
\* of another application
SummaryAt(r) ==
    << Check("other-app", SUMMARY_NAME, "success", "T3", "B3"),
       Check(INTEGRATION_ID, SUMMARY_NAME, "failure", "T-" \o r, "B-" \o r) >>

Sync(after, before) ==
    [event_type |-> "pull_request",
     data |-> [action |-> "synchronize", after |-> after, before |-> before]]

ConcBatches ==
    { <<>>,
      << PullRequestEvent("closed") >>,
      << Sync("r1", "r2") >>,
      << Sync("r2", "r3") >>,
      << Sync("r2", "r3"), Sync("r1", "r2") >>,
      << Sync("r1", "r2"), PullRequestEvent("closed") >> }

\* the output ensure_summary_on_head_sha republishes (lines 156-159)
RepublishedOutput_TitleOnly(previous_summary) ==
    [title |-> previous_summary.output.title,
     summary |-> previous_summary.output.title]

RepublishedOutput(previous_summary) ==
    [title |-> previous_summary.output.title,
     summary |-> previous_summary.output.summary]

\* the outputs of the engine's Summaries of a check-run list
EngineSummaryOutputs(l) ==
    {l[i].output : i \in {j \in 1..Len(l) :
        l[j].app = INTEGRATION_ID /\ l[j].name = SUMMARY_NAME}}

InitConc ==
    /\ checks \in [Revs -> {<<>>}] \cup
                  {[r \in Revs |-> IF r \in S THEN SummaryAt(r) ELSE <<>>] :
                      S \in SUBSET Revs}
    /\ pointer \in Revs \cup {NoSha}
    /\ runs \in [RunIds -> [pc : {"head_checks"},
                            head_sha : {"r1", "r2"},
                            sources : ConcBatches,
                            sha : {NoSha},
                            d : {<<>>},
                            after_sha : {NoSha},
                            previous_summary : {NoSummary},
                            from : {NoSha},
                            published : {<<>>}]]
    /\ summaries_seen = [r \in Revs |-> EngineSummaryOutputs(checks[r])]
    /\ DEFAULT_PULL_REQUEST_RULES = BaselineRules
    /\ pull = [head_sha |-> "r1", base_ref |-> "main",
               default_branch |-> "main", private |-> FALSE]
    /\ sub = [private_repository |-> TRUE, reason |-> ""]
    /\ sources = <<>>
    /\ ctxt_sources = <<>>
    /\ issue_comment_sources = <<>>
    /\ answers = NoAnswers
    /\ mergify_config = <<>>
    /\ handed = NotHanded
    /\ pc = "idle"
    /\ log = <<>>
    /\ prev = [checks |-> checks, pointer |-> pointer, called |-> FALSE]
    /\ NoSubscriptionCalls

\* lines 141-143: the engine's check-runs of the head are fetched
HeadChecks(i) ==
    /\ runs[i].pc = "head_checks"
    /\ runs' = [runs EXCEPT ![i].pc =
                  IF SummaryOnHead(pull_engine_check_runs(checks, runs[i].head_sha))
                  THEN "closed" ELSE "get_pointer"]
    /\ UNCHANGED <<checks, pointer, summaries_seen>>

\* lines 145-149 and 109-124: the pointer is read; without one the mapping of
\* the synchronize events is built
GetPointer(i) ==
    /\ runs[i].pc = "get_pointer"
    /\ LET d == synchronize_events(runs[i].sources)
       IN  runs' = [runs EXCEPT ![i] =
              [@ EXCEPT !.sha = pointer,
                        !.d = IF pointer = NoSha THEN d ELSE <<>>,
                        !.after_sha = IF pointer = NoSha THEN runs[i].head_sha
                                      ELSE NoSha,
                        !.pc = CASE pointer # NoSha -> "lookup_pointer"
                                 [] DOMAIN d # {} -> "walk"
                                 [] OTHER -> "closed"]]
    /\ UNCHANGED <<checks, pointer, summaries_seen>>

\* line 147: the Summary at the revision the pointer names
LookupPointer(i) ==
    /\ runs[i].pc = "lookup_pointer"
    /\ LET previous_summary == get_summary_from_sha(checks, runs[i].sha)
       IN  runs' = [runs EXCEPT ![i] =
              [@ EXCEPT !.previous_summary = previous_summary,
                        !.from = runs[i].sha,
                        !.pc = IF previous_summary # NoSummary
                               THEN "republish" ELSE "closed"]]
    /\ UNCHANGED <<checks, pointer, summaries_seen>>

\* lines 125-137: one iteration of the walk
Walk(i) ==
    /\ runs[i].pc = "walk"
    /\ LET d == runs[i].d
           after_sha == runs[i].after_sha
       IN  IF after_sha \in DOMAIN d
           THEN LET sync_event == d[after_sha]
                    rest == Restrict(d, DOMAIN d \ {after_sha})
                IN  IF "before" \notin DOMAIN sync_event
                    THEN runs' = [runs EXCEPT ![i].pc = "raised"]
                    ELSE LET previous_summary ==
                                 get_summary_from_sha(checks, sync_event.before)
                         IN  runs' = [runs EXCEPT ![i] =
                                [@ EXCEPT
                                   !.d = rest,
                                   !.after_sha = sync_event.before,
                                   !.previous_summary = previous_summary,
                                   !.from = sync_event.before,
                                   !.pc = CASE previous_summary # NoSummary -> "republish"
                                            [] DOMAIN rest # {} -> "walk"
                                            [] OTHER -> "closed"]]
           ELSE runs' = [runs EXCEPT ![i].pc = "closed"]
    /\ UNCHANGED <<checks, pointer, summaries_seen>>

\* lines 151-161: the Summary found is published on the head
Republish(i) ==
    /\ runs[i].pc = "republish"
    /\ LET output == RepublishedOutput(runs[i].previous_summary)
       IN  /\ checks' = set_check_run(checks, runs[i].head_sha, SUMMARY_NAME,
                                      "success", output)
           /\ summaries_seen' = [summaries_seen EXCEPT ![runs[i].head_sha] =
                                    @ \cup {output}]
           /\ runs' = [runs EXCEPT ![i] =
                 [@ EXCEPT !.published =
                              Append(@, [from |-> runs[i].from, output |-> output]),
                           !.pc = "save_pointer"]]
    /\ UNCHANGED pointer

\* line 162
SavePointer(i) ==
    /\ runs[i].pc = "save_pointer"
    /\ pointer' = runs[i].head_sha
    /\ runs' = [runs EXCEPT ![i].pc = "closed"]
    /\ UNCHANGED <<checks, summaries_seen>>

\* lines 265-269
DeletePointer(i) ==
    /\ runs[i].pc = "closed"
    /\ pointer' = IF AnyClosed(runs[i].sources) THEN NoSha ELSE pointer
    /\ runs' = [runs EXCEPT ![i].pc = "handle"]
    /\ UNCHANGED <<checks, summaries_seen>>

ConcUnchanged ==
    UNCHANGED <<DEFAULT_PULL_REQUEST_RULES, pull, sub, sources, ctxt_sources,
                issue_comment_sources, answers, mergify_config, handed, pc,
                log, prev, subVars>>

NextConc ==
    \/ \E i \in RunIds : HeadChecks(i) /\ ConcUnchanged
    \/ \E i \in RunIds : GetPointer(i) /\ ConcUnchanged
    \/ \E i \in RunIds : LookupPointer(i) /\ ConcUnchanged
    \/ \E i \in RunIds : Walk(i) /\ ConcUnchanged
    \/ \E i \in RunIds : Republish(i) /\ ConcUnchanged
    \/ \E i \in RunIds : SavePointer(i) /\ ConcUnchanged
    \/ \E i \in RunIds : DeletePointer(i) /\ ConcUnchanged

SpecConc == InitConc /\ [][NextConc]_vars

\* C13: however two runs of a pull request interleave, the pointer holds no
\* value, the value it had before the runs or the head of one of the runs;
\* every Summary a run publishes through continuity is a success with the title
\* and body of a Summary of the engine that existed at the revision the run
\* took it from; a run republishes at most once, and only on its own head.
C13_RacesOnlyMissOrDuplicate ==
    /\ pointer \in {NoSha, prev.pointer} \cup {runs[i].head_sha : i \in RunIds}
    /\ \A i \in RunIds :
          /\ Len(runs[i].published) <= 1
          /\ \A k \in 1..Len(runs[i].published) :
                /\ runs[i].published[k].from # NoSha
                /\ runs[i].published[k].output
                      \in summaries_seen[runs[i].published[k].from]
          /\ (runs[i].pc \in {"save_pointer", "closed", "handle"}
                /\ runs[i].published # <<>>) =>
                (/\ HasEngineSummary(checks, runs[i].head_sha)
                 /\ TheEngineSummary(checks, runs[i].head_sha).conclusion = "success")
    /\ \A r \in Revs \ {runs[i].head_sha : i \in RunIds} : checks[r] = prev.checks[r]
    /\ \A r \in Revs :
          /\ Cardinality(EngineSummaries(checks, r)) <= 1
          /\ EngineSummaryOutputs(checks[r]) \subseteq summaries_seen[r]

\* both runs found no Summary on the same head and both republished the one
\* the pointer named: a duplicated republish
C13_Witness ==
    /\ \A i \in RunIds : runs[i].pc = "handle" /\ Len(runs[i].published) = 1
    /\ runs["run-1"].head_sha = runs["run-2"].head_sha
    /\ pointer = runs["run-1"].head_sha
    /\ prev.pointer \notin {NoSha, pointer}

----------------------------------------------------------------------------
(* Partition and commands (checked under Spec) *)

\* positions of the batch's comment events and of its other events
CommentIdx == {i \in 1..Len(sources) : sources[i].event_type = "issue_comment"}

StateIdx == {i \in 1..Len(sources) : sources[i].event_type # "issue_comment"}

\* the k-th smallest element of a set of positions
Nth(S, k) == CHOOSE i \in S : Cardinality({j \in S : j <= i}) = k

\* C15: once the run has left its first step, the pending commands were run
\* once, first; then each issue_comment event of the batch was handed to the
\* command handler once, with its body and author, in arrival order; every
\* other effect of the run comes after them, also in runs a gate stops. The
\* Context's sources are the other events in arrival order, with no comment
\* among them. A batch without any other event returns with no Summary
\* published, the pointer untouched and the evaluator not invoked.
C15_PartitionAndCommands ==
    pc # "start" =>
        LET n == Cardinality(CommentIdx)
        IN  /\ Len(log) >= n + 1
            /\ log[1] = <<"run_pending_commands_tasks">>
            /\ CountOp(log, "run_pending_commands_tasks") = 1
            /\ CountOp(log, "commands_runner.handle") = n
            /\ \A k \in 1..n :
                  log[k + 1] =
                      <<"commands_runner.handle",
                        sources[Nth(CommentIdx, k)].data.comment.body,
                        sources[Nth(CommentIdx, k)].data.comment.user>>
            /\ Len(ctxt_sources) = Cardinality(StateIdx)
            /\ \A k \in 1..Len(ctxt_sources) :
                  ctxt_sources[k] = sources[Nth(StateIdx, k)]
            /\ \A k \in 1..Len(ctxt_sources) :
                  ctxt_sources[k].event_type # "issue_comment"
            /\ StateIdx = {} =>
                  /\ pc = "returned"
                  /\ Len(log) = n + 1
                  /\ Published = <<>>
                  /\ checks = prev.checks
                  /\ PointerUntouched
                  /\ ~EvaluatorInvoked
                  /\ handed.called = 0

\* a comment was handled in a run that the credential gate then stopped, its
\* comment arriving after the other event
C15_Witness ==
    /\ pc = "returned"
    /\ Len(sources) = 2
    /\ CommentIdx = {2}
    /\ answers.permissions = "needs_update"
    /\ CountOp(log, "commands_runner.handle") = 1
    /\ Len(Published) = 1

----------------------------------------------------------------------------
(* Further properties of the continuity tracker (checked under SpecWalk) *)

PointerCase ==
    /\ prev.called
    /\ prev.pointer # NoSha
    /\ ~HasEngineSummary(prev.checks, pull.head_sha)

\* the revisions whose check-runs the call asked for
Consulted ==
    {log[i][2] : i \in {j \in 1..Len(log) : log[j][1] = "get_checks_for_ref"}}

\* C16: when the head carries no Summary and a pointer is persisted, the call
\* asks only for the check-runs of the revision the pointer names; a Summary
\* there is republished on the head (success, same title and body) and the
\* pointer becomes the head; with none there nothing is published, the pointer
\* stays as it was and the walk over the synchronize events is not made, also
\* when it would have led to a Summary.
C16_PointerHitNoFallback ==
    PointerCase =>
        /\ Consulted = {prev.pointer}
        /\ CountOp(log, "get_checks_for_ref") = 1
        /\ CountOp(log, "warning") = 0
        /\ HasEngineSummary(prev.checks, prev.pointer) =>
              RepublishedFrom(prev.pointer)
        /\ ~HasEngineSummary(prev.checks, prev.pointer) =>
              /\ pc = "continuity"
              /\ CountOp(log, "set_check_run") = 0
              /\ CountOp(log, "save_last_summary_head_sha") = 0
              /\ checks = prev.checks
              /\ pointer = prev.pointer

\* the pointer names a revision without Summary while the synchronize events
\* lead from the head to a revision with one: nothing was republished
C16_Witness ==
    /\ PointerCase
    /\ ~HasEngineSummary(prev.checks, prev.pointer)
    /\ WalkOfCall.summary # NoSummary
    /\ ~HasEngineSummary(checks, pull.head_sha)
    /\ pointer = prev.pointer

\* the walk over the synchronize events was made, and returned
WalkAttempted ==
    /\ prev.called
    /\ prev.pointer = NoSha
    /\ ~HasEngineSummary(prev.checks, pull.head_sha)
    /\ Afters(ctxt_sources) # {}
    /\ pc = "continuity"

\* C17: whenever the walk is made on a batch with a synchronize event and ends
\* without a Summary, a warning is logged, also when the walk ends because all
\* the events of the mapping were consumed.
C17_IndeterminateAlwaysLogged ==
    (WalkAttempted /\ WalkOfCall.summary = NoSummary) =>
        CountOp(log, "warning") >= 1

\* C18: the mapping of the walk holds only synchronize events that carry a
\* `before`, so the walk never fails reading the `before` of an event it pops.
C18_MappingRestrictedToBefore ==
    prev.called =>
        /\ \A a \in DOMAIN synchronize_events(ctxt_sources) :
              "before" \in DOMAIN synchronize_events(ctxt_sources)[a]
        /\ pc # "raised"

\* the walk over the synchronize events was made (it returned or raised)
WalkMade ==
    /\ prev.called
    /\ prev.pointer = NoSha
    /\ ~HasEngineSummary(prev.checks, pull.head_sha)

NoRepeat(q) == \A i, j \in 1..Len(q) : i # j => q[i] # q[j]

\* C19: whatever the batch, the walk ends after at most as many iterations as
\* the batch's synchronize events have distinct `after` revisions, and pops
\* each event of the mapping at most once: it asks for the check-runs of at
\* most that many revisions.
C19_WalkTerminates ==
    WalkMade =>
        /\ WalkOfCall.iterations <= Cardinality(Afters(ctxt_sources))
        /\ Len(WalkOfCall.popped) <= WalkOfCall.iterations
        /\ NoRepeat(WalkOfCall.popped)
        /\ \A i \in 1..Len(WalkOfCall.popped) :
              WalkOfCall.popped[i] \in Afters(ctxt_sources)
        /\ CountOp(log, "get_checks_for_ref") <= Len(WalkOfCall.popped)
        /\ CountOp(log, "warning") <= 1

\* a cycle r -> s, s -> r without any Summary: both events were popped and the
\* walk ended
C19_Witness ==
    /\ WalkMade
    /\ pc = "continuity"
    /\ Len(ctxt_sources) = 2
    /\ ctxt_sources[1].data.action = "synchronize"
    /\ ctxt_sources[2].data.action = "synchronize"
    /\ "before" \in DOMAIN ctxt_sources[1].data
    /\ "before" \in DOMAIN ctxt_sources[2].data
    /\ ctxt_sources[1].data.after = ctxt_sources[2].data.before
    /\ ctxt_sources[2].data.after = ctxt_sources[1].data.before
    /\ ctxt_sources[1].data.after # ctxt_sources[1].data.before
    /\ WalkOfCall.iterations = 2
    /\ Len(WalkOfCall.popped) = 2
    /\ WalkOfCall.summary = NoSummary

----------------------------------------------------------------------------
(* Writes of a run (checked under Spec) *)

PointerWrites ==
    SelectSeq(log, LAMBDA e : e[1] \in {"save_last_summary_head_sha",
                                        "delete_last_summary_head_sha"})

\* C20: whatever the gates answer, a run publishes at most one check-run, a
\* Summary on the head, and it comes from the credential gate, the
\* configuration-change gate, the invalid configuration, the entitlement gate
\* or the continuity republish; it writes the pointer at most twice: at most one
\* save, by continuity, then at most one delete; all of it before the
\* evaluator is invoked.
C20_AtMostOneSummary ==
    /\ Len(Published) <= 1
    /\ \A k \in 1..Len(Published) :
          /\ Published[k][2] = SUMMARY_NAME
          /\ StepOf(Published[k]) \in {2, 3, 4, 5, 6}
    /\ Len(PointerWrites) <= 2
    /\ CountOp(log, "save_last_summary_head_sha") <= 1
    /\ CountOp(log, "delete_last_summary_head_sha") <= 1
    /\ Len(PointerWrites) = 2 =>
          /\ PointerWrites[1] = <<"save_last_summary_head_sha">>
          /\ PointerWrites[2] = <<"delete_last_summary_head_sha">>
    /\ CountOp(log, "save_last_summary_head_sha") = 1 =>
          /\ Len(Published) = 1
          /\ StepOf(Published[1]) = 6
    /\ \A i \in 1..Len(log) :
          log[i][1] = "actions_runner.handle" => i = Len(log)
    /\ \A r \in Revs \ {pull.head_sha} : checks[r] = prev.checks[r]

\* a run republished a Summary, saved the pointer and then deleted it
C20_Witness ==
    /\ Len(Published) = 1
    /\ Published[1][3] = "success"
    /\ PointerWrites = << <<"save_last_summary_head_sha">>,
                          <<"delete_last_summary_head_sha">> >>
    /\ pointer = NoSha
    /\ prev.pointer # NoSha

====
